---- MODULE Spec2Model ----
(***************************************************************************)
(* Model of .github/scripts/claude-api.py: one run of main(), from         *)
(* argument parsing to process exit, with the three operations of          *)
(* ClaudeAssistant (generate_spec, analyze_test_failures, review_pr).      *)
(*                                                                         *)
(* Representation of Python values:                                        *)
(*   - str arguments are TLA+ strings; Python's None is the token None,    *)
(*     which is no member of any input set of strings;                     *)
(*   - the text of a file is a sequence of characters (small integers),    *)
(*     so that a slice keeps positions and lengths;                        *)
(*   - a dict is a function from its keys, a list is a sequence;           *)
(*   - a parsed JSON document is tagged with its Python type;              *)
(*   - a line printed on a stream is a tuple of its parts.                 *)
(***************************************************************************)
EXTENDS Integers, Sequences, FiniteSets, TLC

(***************************************************************************)
(* Bounds of the model.                                                    *)
(***************************************************************************)
\* longest list of entries of a result-list report
MaxTests == 2
\* longest list of specs of one suite of a suite/spec report
MaxSpecs == 2
\* longest list of suites of a suite/spec report
MaxSuites == 1
\* how far the longest input file exceeds a truncation limit
Excess == 2

(***************************************************************************)
(* Program constants.                                                      *)
(***************************************************************************)
CONTEXT_LIMIT == 4000
DIFF_LIMIT == 8000
SPEC_MAX_TOKENS == 4096
ANALYSIS_MAX_TOKENS == 2048
REVIEW_MAX_TOKENS == 2048

None == "<None>"
MODEL == "claude-3-5-sonnet-20241022"
\* the fixed success string; U+2705 stands for the check-mark character
NO_FAILURES == "U+2705 No test failures detected"
EmptyDict == [k \in {} |-> None]

Min(a, b) == IF a <= b THEN a ELSE b

\* Python truthiness of an optional str: None and "" are falsy
Truthy(s) == s # None /\ s # ""

\* d.get(k, default)
Get(d, k, default) == IF k \in DOMAIN d THEN d[k] ELSE default

\* s[:n] for n >= 0
Slice(s, n) == SubSeq(s, 1, Min(Len(s), n))

(***************************************************************************)
(* Prompts.  A prompt is the name of its fixed template and the values     *)
(* interpolated into it.                                                   *)
(***************************************************************************)
SpecPrompt(issue_title, issue_body, codebase_context) ==
    [template |-> "generate_spec",
     issue_title |-> issue_title,
     issue_body |-> issue_body,
     codebase_context |-> Slice(codebase_context, CONTEXT_LIMIT)]

\* json.dumps(failures, indent=2): the serialised list, distinct lists
\* giving distinct texts
JsonDumps(failures) == [json |-> failures]

AnalysisPrompt(failures) ==
    [template |-> "analyze_test_failures",
     failures |-> JsonDumps(failures)]

\* variant: the diff cut at the limit of the codebase context
ReviewPromptContextLimit(diff, pr_description) ==
    [template |-> "review_pr",
     pr_description |-> pr_description,
     diff |-> Slice(diff, CONTEXT_LIMIT)]

ReviewPrompt(diff, pr_description) ==
    [template |-> "review_pr",
     pr_description |-> pr_description,
     diff |-> Slice(diff, DIFF_LIMIT)]

\* the arguments of client.messages.create
Request(max_tokens, prompt) ==
    [model |-> MODEL,
     max_tokens |-> max_tokens,
     messages |-> <<[role |-> "user", content |-> prompt]>>]

(***************************************************************************)
(* analyze_test_failures: extraction of the Failure List.  Each operator   *)
(* returns [exc, failures]: the exception raised ("none" when none) and    *)
(* the list built.                                                         *)
(***************************************************************************)
Ok(failures) == [exc |-> "none", failures |-> failures]
Raised(e) == [exc |-> e, failures |-> <<>>]

\* whether `key in v` raises TypeError: v is not a container
InRaises(v) == v.type \in {"null", "number"}

\* `key in v` for a container v: a key of a dict, an element of a list,
\* a substring of a str (a str is a sequence of words, a key is one word)
In(key, v) ==
    CASE v.type = "object" -> key \in DOMAIN v.members
      [] v.type = "list" ->
            \E i \in 1..Len(v.items) :
                v.items[i].type = "string" /\ v.items[i].words = <<key>>
      [] v.type = "string" -> \E i \in 1..Len(v.words) : v.words[i] = key

\* whether v has a .get method
HasGet(v) == v.type = "object"

\* the record appended for one failed entry of testResults; [0] of an
\* empty list raises IndexError
VitestRecord(test) ==
    LET results == Get(test, "assertionResults", <<EmptyDict>>)
    IN  IF results = <<>>
        THEN Raised("IndexError")
        ELSE Ok(<<[file |-> Get(test, "name", None),
                   test |-> Get(results[1], "title", "Unknown"),
                   error |-> Get(test, "message", "Unknown error")]>>)

\* variant: every entry that has not passed counts as failed
VitestFailedNotPassed(test) == Get(test, "status", None) # "passed"

\* `test.get('status') == 'failed'`
VitestFailed(test) == Get(test, "status", None) = "failed"

RECURSIVE VitestLoop(_, _, _)
VitestLoop(tests, i, failures) ==
    IF i > Len(tests) THEN Ok(failures)
    ELSE IF VitestFailed(tests[i])
         THEN LET r == VitestRecord(tests[i])
              IN  IF r.exc # "none" THEN Raised(r.exc)
                  ELSE VitestLoop(tests, i + 1, failures \o r.failures)
         ELSE VitestLoop(tests, i + 1, failures)

\* `test.get('ok') is False`
PlaywrightFailed(test) == "ok" \in DOMAIN test /\ test.ok = FALSE

PlaywrightRecord(suite, test) ==
    [file |-> Get(suite, "file", None),
     test |-> Get(test, "title", None),
     error |-> Get(Get(test, "error", EmptyDict), "message", "Unknown error")]

RECURSIVE SpecLoop(_, _, _, _)
SpecLoop(suite, specs, j, failures) ==
    IF j > Len(specs) THEN failures
    ELSE IF PlaywrightFailed(specs[j])
         THEN SpecLoop(suite, specs, j + 1,
                       Append(failures, PlaywrightRecord(suite, specs[j])))
         ELSE SpecLoop(suite, specs, j + 1, failures)

RECURSIVE SuiteLoop(_, _, _)
SuiteLoop(suites, i, failures) ==
    IF i > Len(suites) THEN Ok(failures)
    ELSE SuiteLoop(suites, i + 1,
                   SpecLoop(suites[i], Get(suites[i], "specs", <<>>), 1, failures))

ExtractFailures(test_report) ==
    IF InRaises(test_report) THEN Raised("TypeError")
    ELSE IF In("testResults", test_report)
    THEN IF ~HasGet(test_report) THEN Raised("AttributeError")
         ELSE VitestLoop(Get(test_report.members, "testResults", <<>>), 1, <<>>)
    ELSE IF In("suites", test_report)
    THEN IF ~HasGet(test_report) THEN Raised("AttributeError")
         ELSE SuiteLoop(Get(test_report.members, "suites", <<>>), 1, <<>>)
    ELSE Ok(<<>>)

\* variant: no short-circuit on an empty Failure List
NeverEmpty(failures) == FALSE

\* `not failures`

NoFailures(failures) == failures = <<>>

(***************************************************************************)
(* Inputs of a run: the command line, the environment, the files named on  *)
(* the command line and the replies of the remote service.                 *)
(***************************************************************************)
Commands == {"spec", "test-analysis", "pr-review"}

\* an optional str argument: not given, given empty, given
OptArg(v) == {None, "", v}

NoArgs ==
    [command |-> None, issue_title |-> None, issue_body |-> None,
     codebase_context |-> None, test_report |-> None, diff |-> None,
     pr_description |-> None, output |-> None]

ArgsOf(command) ==
    CASE command = "spec" ->
            {[NoArgs EXCEPT !.command = command, !.issue_title = t,
                            !.issue_body = b, !.codebase_context = c, !.output = o] :
                t \in OptArg("Add export"), b \in OptArg("As an admin"),
                c \in OptArg("context.md"), o \in OptArg("out.md")}
      [] command = "test-analysis" ->
            {[NoArgs EXCEPT !.command = command, !.test_report = r, !.output = o] :
                r \in OptArg("report.json"), o \in OptArg("out.md")}
      [] command = "pr-review" ->
            {[NoArgs EXCEPT !.command = command, !.diff = d,
                            !.pr_description = p, !.output = o] :
                d \in OptArg("pr.diff"), p \in OptArg("Fixes login"),
                o \in OptArg("out.md")}
      [] OTHER -> {[NoArgs EXCEPT !.command = command]}

\* os.environ.get('CLAUDE_API_KEY')
EnvKeys == {None, "", "sk-ant-key"}

\* the text of n characters whose i-th character is i mod 10
Text(n) == [i \in 1..n |-> i % 10]

ContextTexts ==
    {Text(n) : n \in {0, 1, CONTEXT_LIMIT - 1, CONTEXT_LIMIT, CONTEXT_LIMIT + Excess}}

DiffTexts ==
    {Text(n) : n \in {0, 1, CONTEXT_LIMIT + 1, DIFF_LIMIT - 1, DIFF_LIMIT,
                      DIFF_LIMIT + 1, DIFF_LIMIT + Excess}}

SeqsUpTo(S, n) == UNION {[1..k -> S] : k \in 0..n}

\* a dict with the key k when has holds
Opt(has, k, v) == IF has THEN k :> v ELSE EmptyDict

AssertionResults ==
    {<<>>, <<EmptyDict>>, <<[title |-> "renders table"]>>}

\* entries of testResults: the entries that are not failed carry no other
\* field or all of them; the failed ones carry every combination
TestEntries ==
    {Opt(s # None, "status", s) @@ Opt(full, "name", "users.test.ts")
        @@ Opt(full, "assertionResults", <<>>) @@ Opt(full, "message", "ok") :
        s \in {None, "passed"}, full \in BOOLEAN}
    \cup
    {[status |-> "failed"] @@ Opt(n, "name", "users.test.ts")
        @@ Opt(m, "message", "expected 2 to be 3") : n \in BOOLEAN, m \in BOOLEAN}
    \cup
    {[status |-> "failed", assertionResults |-> a] @@ Opt(n, "name", "users.test.ts")
        @@ Opt(m, "message", "expected 2 to be 3") :
        a \in AssertionResults, n \in BOOLEAN, m \in BOOLEAN}

\* specs of a suite
SpecEntries ==
    {EmptyDict,
     [ok |-> TRUE, title |-> "logs in"],
     [ok |-> FALSE],
     [ok |-> FALSE, title |-> "logs out", error |-> [message |-> "timeout"]]}

Suites ==
    {EmptyDict}
    \cup {[file |-> "auth.spec.ts", specs |-> ss] : ss \in SeqsUpTo(SpecEntries, MaxSpecs)}

Obj(members) == [type |-> "object", members |-> members]
Str(words) == [type |-> "string", words |-> words]
List(items) == [type |-> "list", items |-> items]
Unread == [type |-> "unread"]

\* what json.load can return for the report file
Reports ==
    {Obj([testResults |-> ts]) : ts \in SeqsUpTo(TestEntries, MaxTests)}
    \cup {Obj([suites |-> ss]) : ss \in SeqsUpTo(Suites, MaxSuites)}
    \cup {Obj([testResults |-> ts,
               suites |-> <<[file |-> "auth.spec.ts", specs |-> <<[ok |-> FALSE]>>]>>]) :
            ts \in {<<>>, <<[status |-> "passed"]>>, <<[status |-> "failed"]>>}}
    \cup {Obj(EmptyDict), Obj([numTotalTests |-> "3"])}
    \cup {[type |-> "null"], [type |-> "number"]}
    \cup {Str(<<>>), Str(<<"all", "passed">>), Str(<<"no", "testResults">>),
          Str(<<"suites">>)}
    \cup {List(<<>>), List(<<Obj([status |-> "failed"])>>),
          List(<<Str(<<"testResults">>)>>), List(<<Str(<<"suites">>)>>)}

\* what client.messages.create can do: reply with a text block, reply with
\* no content block, or raise
ServiceOutcomes ==
    {[kind |-> "text", text |-> t] : t \in {"OK", "# Review"}}
    \cup {[kind |-> "empty"], [kind |-> "error"]}

\* what opening, reading or writing a file can do
IoOutcomes == {"ok", "OSError"}

\* what print on standard output can do
PrintOutcomes == {"ok", "UnicodeEncodeError"}

(***************************************************************************)
(* State of one run.                                                       *)
(***************************************************************************)
VARIABLES
    pc,                \* the statement of main() the run is at
    args,              \* the parsed command line
    environ,           \* the value of CLAUDE_API_KEY in the environment
    codebase_context,  \* main's local: the text read from --codebase-context
    test_report,       \* main's local: the parsed report
    diff,              \* main's local: the text read from --diff
    failures,          \* analyze_test_failures' local: the Failure List
    calls,             \* the calls issued to the remote service, in order:
                       \* each the request sent and what came back
    result,            \* main's local: the text to emit
    returned,          \* whether the selected operation has returned
    outfile0,          \* the file at --output before the run
    outfile,           \* the file at --output
    stdout,            \* the lines printed on standard output
    stderr,            \* the lines printed on the error stream
    exc,               \* the exception raised, "none" when none
    caught,            \* whether the except clause of main() has run
    exitCode           \* the exit status of the process, -1 while it runs

vars == <<pc, args, environ, codebase_context, test_report, diff, failures,
          calls, result, returned, outfile0, outfile, stdout, stderr, exc,
          caught, exitCode>>

locals == <<codebase_context, test_report, diff, failures>>
exit == <<exc, caught, exitCode>>

NoFile == [exists |-> FALSE, content |-> <<>>]

\* f.write(s) at the end of the file: the chunks written, empty ones left out
Written(content, s) == IF s = "" THEN content ELSE Append(content, s)

Init ==
    /\ pc = "parse_args"
    /\ args \in UNION {ArgsOf(c) : c \in Commands \cup {"deploy"}}
    /\ environ \in EnvKeys
    /\ codebase_context = <<>>
    /\ test_report = Unread
    /\ diff = <<>>
    /\ failures = <<>>
    /\ calls = <<>>
    /\ result = ""
    /\ returned = FALSE
    /\ outfile0 \in {NoFile, [exists |-> TRUE, content |-> <<"previous run">>]}
    /\ outfile = outfile0
    /\ stdout = <<>>
    /\ stderr = <<>>
    /\ exc = "none"
    /\ caught = FALSE
    /\ exitCode = -1

(***************************************************************************)
(* Exceptions.  main() wraps everything after parse_args in                *)
(*   try: ... except Exception as e: print(..., file=sys.stderr); exit(1)  *)
(* SystemExit derives from BaseException, not from Exception.              *)
(***************************************************************************)
\* variant: `except ValueError`
CatchesValueErrorOnly(e) == e = "ValueError"

\* `except Exception`
Catches(e) == e # "SystemExit"

\* U+274C stands for the cross-mark character
ErrorLine(e) == <<"U+274C Error: ", e>>

\* an exception e leaves the try block, the error stream holding err so far:
\* the handler prints and exits 1; what it does not catch ends the process
\* with the status the exception carries (code for SystemExit, 1 with a
\* traceback for any other)
Propagate(e, code, err) ==
    /\ exc' = e
    /\ pc' = "done"
    /\ IF Catches(e)
       THEN /\ caught' = TRUE
            /\ stderr' = Append(err, ErrorLine(e))
            /\ exitCode' = 1
       ELSE /\ caught' = FALSE
            /\ stderr' = IF e = "SystemExit" THEN err
                         ELSE Append(err, <<"Traceback", e>>)
            /\ exitCode' = IF e = "SystemExit" THEN code ELSE 1

\* parser.parse_args(): a command outside the choices is an error, exit 2
ParseArgs ==
    /\ pc = "parse_args"
    /\ IF args.command \in Commands
       THEN /\ pc' = "init"
            /\ UNCHANGED <<stderr, exit>>
       ELSE /\ pc' = "done"
            /\ stderr' = Append(stderr, <<"usage: invalid choice: ", args.command>>)
            /\ exc' = "SystemExit"
            /\ exitCode' = 2
            /\ UNCHANGED caught
    /\ UNCHANGED <<args, environ, locals, calls, result, returned,
                   outfile0, outfile, stdout>>

\* variant: no check of the key
KeyNeverMissing(api_key) == FALSE

\* `not self.api_key`

KeyMissing(api_key) == ~Truthy(api_key)

\* self.api_key = api_key or os.environ.get('CLAUDE_API_KEY')
ApiKey(api_key, env) == IF Truthy(api_key) THEN api_key ELSE env

\* assistant = ClaudeAssistant(); result = ""
Construct ==
    /\ pc = "init"
    /\ IF KeyMissing(ApiKey(None, environ))
       THEN Propagate("ValueError", 1, stderr)
       ELSE /\ pc' = "dispatch"
            /\ UNCHANGED <<stderr, exit>>
    /\ result' = IF KeyMissing(ApiKey(None, environ)) THEN result ELSE ""
    /\ UNCHANGED <<args, environ, locals, calls, returned, outfile0,
                   outfile, stdout>>

\* variant: `args.x is None`
MissingIsNone(a) == a = None

\* `not args.x`

Missing(a) == ~Truthy(a)

\* the required-input check of the selected command
RequiredMissing(a) ==
    CASE a.command = "spec" -> Missing(a.issue_title) \/ Missing(a.issue_body)
      [] a.command = "test-analysis" -> Missing(a.test_report)
      [] a.command = "pr-review" -> Missing(a.diff) \/ Missing(a.pr_description)

UsageLine(command) ==
    CASE command = "spec" ->
            <<"Error: --issue-title and --issue-body required for spec generation">>
      [] command = "test-analysis" ->
            <<"Error: --test-report required for test analysis">>
      [] command = "pr-review" ->
            <<"Error: --diff and --pr-description required for PR review">>

\* the branch of the selected command up to its first file read
Validate ==
    /\ pc = "dispatch"
    /\ IF RequiredMissing(args)
       THEN Propagate("SystemExit", 1, Append(stderr, UsageLine(args.command)))
       ELSE /\ pc' = CASE args.command = "spec" ->
                            IF Truthy(args.codebase_context)
                            THEN "read_context" ELSE "generate_spec"
                       [] args.command = "test-analysis" -> "read_report"
                       [] args.command = "pr-review" -> "read_diff"
            /\ UNCHANGED <<stderr, exit>>
    /\ UNCHANGED <<args, environ, locals, calls, result, returned,
                   outfile0, outfile, stdout>>

\* with open(args.codebase_context) as f: codebase_context = f.read()
ReadContext ==
    /\ pc = "read_context"
    /\ \E io \in IoOutcomes, text \in ContextTexts :
         IF io = "ok"
         THEN /\ codebase_context' = text
              /\ pc' = "generate_spec"
              /\ UNCHANGED <<stderr, exit>>
         ELSE /\ Propagate(io, 1, stderr)
              /\ UNCHANGED codebase_context
    /\ UNCHANGED <<args, environ, test_report, diff, failures, calls,
                   result, returned, outfile0, outfile, stdout>>

\* with open(args.test_report) as f: test_report = json.load(f)
ReadReport ==
    /\ pc = "read_report"
    /\ \E io \in IoOutcomes \cup {"JSONDecodeError"}, report \in Reports :
         IF io = "ok"
         THEN /\ test_report' = report
              /\ pc' = "analyze"
              /\ UNCHANGED <<stderr, exit>>
         ELSE /\ Propagate(io, 1, stderr)
              /\ UNCHANGED test_report
    /\ UNCHANGED <<args, environ, codebase_context, diff, failures, calls,
                   result, returned, outfile0, outfile, stdout>>

\* with open(args.diff) as f: diff = f.read()
ReadDiff ==
    /\ pc = "read_diff"
    /\ \E io \in IoOutcomes, text \in DiffTexts :
         IF io = "ok"
         THEN /\ diff' = text
              /\ pc' = "review_pr"
              /\ UNCHANGED <<stderr, exit>>
         ELSE /\ Propagate(io, 1, stderr)
              /\ UNCHANGED diff
    /\ UNCHANGED <<args, environ, codebase_context, test_report, failures,
                   calls, result, returned, outfile0, outfile, stdout>>

\* response = self.client.messages.create(...); return response.content[0].text
\* inside main's `result = assistant.<operation>(...)`
CallService(request, outcome) ==
    /\ calls' = Append(calls, [request |-> request, reply |-> outcome])
    /\ CASE outcome.kind = "text" ->
              /\ result' = outcome.text
              /\ returned' = TRUE
              /\ pc' = "output"
              /\ UNCHANGED <<stderr, exit>>
         [] outcome.kind = "empty" ->
              /\ Propagate("IndexError", 1, stderr)
              /\ UNCHANGED <<result, returned>>
         [] outcome.kind = "error" ->
              /\ Propagate("APIError", 1, stderr)
              /\ UNCHANGED <<result, returned>>

\* result = assistant.generate_spec(title, body, codebase_context)
GenerateSpec ==
    /\ pc = "generate_spec"
    /\ \E outcome \in ServiceOutcomes :
         CallService(Request(SPEC_MAX_TOKENS,
                             SpecPrompt(args.issue_title, args.issue_body,
                                        codebase_context)),
                     outcome)
    /\ UNCHANGED <<args, environ, locals, outfile0, outfile, stdout>>

\* result = assistant.analyze_test_failures(test_report)
AnalyzeTestFailures ==
    /\ pc = "analyze"
    /\ LET r == ExtractFailures(test_report)
       IN  /\ failures' = r.failures
           /\ IF r.exc # "none"
              THEN /\ Propagate(r.exc, 1, stderr)
                   /\ UNCHANGED <<calls, result, returned>>
              ELSE IF NoFailures(r.failures)
              THEN /\ result' = NO_FAILURES
                   /\ returned' = TRUE
                   /\ pc' = "output"
                   /\ UNCHANGED <<calls, stderr, exit>>
              ELSE \E outcome \in ServiceOutcomes :
                     CallService(Request(ANALYSIS_MAX_TOKENS,
                                         AnalysisPrompt(r.failures)),
                                 outcome)
    /\ UNCHANGED <<args, environ, codebase_context, test_report, diff,
                   outfile0, outfile, stdout>>

\* result = assistant.review_pr(diff, args.pr_description)
ReviewPr ==
    /\ pc = "review_pr"
    /\ \E outcome \in ServiceOutcomes :
         CallService(Request(REVIEW_MAX_TOKENS,
                             ReviewPrompt(diff, args.pr_description)),
                     outcome)
    /\ UNCHANGED <<args, environ, locals, outfile0, outfile, stdout>>

\* variant: the file just after open(path, 'a'), kept as it is
OpenedForAppend(file) == [exists |-> TRUE, content |-> file.content]

\* the file just after open(path, 'w'): created or truncated
OpenedForWrite(file) == [exists |-> TRUE, content |-> <<>>]

\* if args.output: with open(args.output, 'w', encoding='utf-8') as f:
OpenOutput ==
    /\ pc = "output"
    /\ Truthy(args.output)
    /\ \E io \in IoOutcomes :
         IF io = "ok"
         THEN /\ outfile' = OpenedForWrite(outfile)
              /\ pc' = "write"
              /\ UNCHANGED <<stderr, exit>>
         ELSE /\ Propagate(io, 1, stderr)
              /\ UNCHANGED outfile
    /\ UNCHANGED <<args, environ, locals, calls, result, returned,
                   outfile0, stdout>>

\* f.write(result), and the close of f at the end of the with block
WriteOutput ==
    /\ pc = "write"
    /\ \E io \in IoOutcomes :
         IF io = "ok"
         THEN /\ outfile' = [outfile EXCEPT !.content = Written(@, result)]
              /\ pc' = "confirm"
              /\ UNCHANGED <<stderr, exit>>
         ELSE /\ Propagate(io, 1, stderr)
              /\ UNCHANGED outfile
    /\ UNCHANGED <<args, environ, locals, calls, result, returned,
                   outfile0, stdout>>

\* U+2705 stands for the check-mark character
Confirmation(path) == <<"U+2705 Output written to ", path>>

\* print(f"... Output written to {args.output}")
PrintConfirmation ==
    /\ pc = "confirm"
    /\ \E io \in PrintOutcomes :
         IF io = "ok"
         THEN /\ stdout' = Append(stdout, Confirmation(args.output))
              /\ pc' = "done"
              /\ exitCode' = 0
              /\ UNCHANGED <<stderr, exc, caught>>
         ELSE /\ Propagate(io, 1, stderr)
              /\ UNCHANGED stdout
    /\ UNCHANGED <<args, environ, locals, calls, result, returned,
                   outfile0, outfile>>

\* else: print(result)
PrintResult ==
    /\ pc = "output"
    /\ ~Truthy(args.output)
    /\ \E io \in PrintOutcomes :
         IF io = "ok"
         THEN /\ stdout' = Append(stdout, <<result>>)
              /\ pc' = "done"
              /\ exitCode' = 0
              /\ UNCHANGED <<stderr, exc, caught>>
         ELSE /\ Propagate(io, 1, stderr)
              /\ UNCHANGED stdout
    /\ UNCHANGED <<args, environ, locals, calls, result, returned,
                   outfile0, outfile>>

Next ==
    \/ ParseArgs
    \/ Construct
    \/ Validate
    \/ ReadContext
    \/ ReadReport
    \/ ReadDiff
    \/ GenerateSpec
    \/ AnalyzeTestFailures
    \/ ReviewPr
    \/ OpenOutput
    \/ WriteOutput
    \/ PrintConfirmation
    \/ PrintResult

Spec == Init /\ [][Next]_vars

(***************************************************************************)
(* Vocabulary of the properties, stated on the inputs and the observable   *)
(* state, not through the operators of the program above.                  *)
(***************************************************************************)
ValidCommand == args.command \in Commands
Done == pc = "done"
NetCalls == Len(calls)
Absent(a) == a \in {None, ""}

\* no credential: the environment variable unset or empty (main passes no
\* explicit key)
NoCredential == Absent(environ)

\* the required input of the selected command is missing or empty
RequiredInputAbsent ==
    \/ args.command = "spec"
         /\ (Absent(args.issue_title) \/ Absent(args.issue_body))
    \/ args.command = "test-analysis" /\ Absent(args.test_report)
    \/ args.command = "pr-review"
         /\ (Absent(args.diff) \/ Absent(args.pr_description))

\* analyze_test_failures has run on the parsed report
Analyzed == test_report # Unread /\ pc # "analyze"

IsMapping(v) == v.type = "object"
ResultList(v) == IsMapping(v) /\ "testResults" \in DOMAIN v.members
SuiteSpec(v) == IsMapping(v) /\ "suites" \in DOMAIN v.members

FailedTest(t) == "status" \in DOMAIN t /\ t.status = "failed"
FailedSpec(t) == "ok" \in DOMAIN t /\ t.ok = FALSE

\* the failing entries of a result-list, in report order
FailedTests(v) == SelectSeq(v.members.testResults, FailedTest)

SpecsOf(suite) == IF "specs" \in DOMAIN suite THEN suite.specs ELSE <<>>

\* a mapping none of whose entries, in either shape, is failing
NoFailingEntry(v) ==
    /\ IsMapping(v)
    /\ ResultList(v) => FailedTests(v) = <<>>
    /\ SuiteSpec(v) =>
         \A i \in 1..Len(v.members.suites) :
            \A j \in 1..Len(SpecsOf(v.members.suites[i])) :
               ~FailedSpec(SpecsOf(v.members.suites[i])[j])

\* the file at --output holds exactly the text s
FileHolds(s) ==
    /\ outfile.exists
    /\ outfile.content = IF s = "" THEN <<>> ELSE <<s>>

\* the result has been emitted as --output asks
Emitted ==
    IF args.output \in {None, ""}
    THEN stdout = <<(<<result>>)>> /\ outfile = outfile0
    ELSE FileHolds(result) /\ stdout = <<(<<"U+2705 Output written to ", args.output>>)>>

(***************************************************************************)
(* C1.  Claimed: every invocation of an operation that returns a result    *)
(* has issued exactly one call to the remote service.                      *)
(***************************************************************************)
\* C1 as claimed: once the selected operation has returned, exactly one
\* call has been issued.
C1_ExactlyOneCallPerInvocation == returned => NetCalls = 1

\* C1 as amended: no invocation issues more than one call; generate_spec and
\* review_pr have issued exactly one call when they return;
\* analyze_test_failures has issued exactly one when the Failure List is not
\* empty and none when it is empty.
C1_OneCallUnlessNoFailures ==
    /\ NetCalls <= 1
    /\ returned =>
         NetCalls = IF args.command = "test-analysis" /\ failures = <<>>
                    THEN 0 ELSE 1

C1_Witness ==
    /\ returned
    /\ args.command = "test-analysis"
    /\ Len(failures) = 2
    /\ NetCalls = 1

(***************************************************************************)
(* C2.  Without a credential every subcommand ends with exit code 1, no    *)
(* call is made, and the credential check comes before input validation,   *)
(* file reads and the service call.                                        *)
(***************************************************************************)
\* C2: with no credential and a valid subcommand, the run never gets past
\* the construction of the assistant: no usage error is printed, no file is
\* read, no call is issued, and it ends with ValueError and exit code 1.
C2_NoCredentialFailsFirst ==
    (NoCredential /\ ValidCommand) =>
        /\ pc \in {"parse_args", "init", "done"}
        /\ NetCalls = 0
        /\ test_report = Unread /\ codebase_context = <<>> /\ diff = <<>>
        /\ stdout = <<>> /\ outfile = outfile0
        /\ Done => /\ exitCode = 1
                   /\ exc = "ValueError"
                   /\ Len(stderr) = 1

C2_Witness ==
    /\ NoCredential
    /\ Done
    /\ exitCode = 1
    /\ args.command = "pr-review"
    /\ args.diff = None
    /\ NetCalls = 0

(***************************************************************************)
(* C3.  A report with zero failing entries gives exactly the fixed success *)
(* string and no call.                                                     *)
(***************************************************************************)
\* C3: once analyze_test_failures has run on a report (a mapping, in any
\* shape) none of whose entries is failing, it has returned the fixed
\* success string, the Failure List is empty and no call has been issued.
C3_NoFailuresShortCircuit ==
    (Analyzed /\ NoFailingEntry(test_report)) =>
        /\ returned
        /\ result = "U+2705 No test failures detected"
        /\ failures = <<>>
        /\ NetCalls = 0

C3_Witness ==
    /\ Done
    /\ exitCode = 0
    /\ ResultList(test_report)
    /\ Len(test_report.members.testResults) = 2
    /\ NoFailingEntry(test_report)
    /\ stdout = <<(<<"U+2705 No test failures detected">>)>>

(***************************************************************************)
(* C4.  Result-list reports with a failed entry: one record per failed     *)
(* entry, in report order, whatever the other fields of the entries.       *)
(***************************************************************************)
\* C4 as claimed: once analyze_test_failures has run on a result-list with
\* at least one failed entry, the Failure List has one record per failed
\* entry, in report order, carrying the entry's name and message.
C4_OneRecordPerFailedEntry ==
    (Analyzed /\ ResultList(test_report) /\ FailedTests(test_report) # <<>>) =>
        LET failed == FailedTests(test_report)
        IN  /\ Len(failures) = Len(failed)
            /\ \A k \in 1..Len(failed) :
                  /\ failures[k].file =
                        IF "name" \in DOMAIN failed[k] THEN failed[k].name ELSE None
                  /\ failures[k].error =
                        IF "message" \in DOMAIN failed[k]
                        THEN failed[k].message ELSE "Unknown error"

(***************************************************************************)
(* C5.  Credential present, required input missing or empty: exit code 1,  *)
(* no call, no result written, the exit not swallowed by the handler.      *)
(***************************************************************************)
\* C5: with a credential and the required input of the command missing or
\* empty, the run stops at the command's check: it reads nothing, calls
\* nothing, writes no result, and ends with exit code 1 by a SystemExit the
\* except clause has not caught, the usage line alone on the error stream.
C5_MissingInputExitsOne ==
    (~NoCredential /\ ValidCommand /\ RequiredInputAbsent) =>
        /\ pc \in {"parse_args", "init", "dispatch", "done"}
        /\ NetCalls = 0
        /\ ~returned
        /\ stdout = <<>> /\ outfile = outfile0
        /\ Done => /\ exitCode = 1
                   /\ exc = "SystemExit"
                   /\ ~caught
                   /\ Len(stderr) = 1
                   /\ stderr[1][1] # "U+274C Error: "

C5_Witness ==
    /\ ~NoCredential
    /\ Done
    /\ args.command = "spec"
    /\ args.issue_title = ""
    /\ args.issue_body # None /\ args.issue_body # ""
    /\ exitCode = 1
    /\ exc = "SystemExit"

(***************************************************************************)
(* C6.  Exit codes of a run with a valid subcommand.                       *)
(***************************************************************************)
\* C6 as claimed: a finished run has exit code 0 or 1; every failure gives
\* 1, is caught by the top-level handler and is reported on the error
\* stream; 0 only when the result has been emitted.
C6_EveryFailureCaughtAtTopLevel ==
    (ValidCommand /\ Done) =>
        /\ exitCode \in {0, 1}
        /\ exc # "none" => (exitCode = 1 /\ caught /\ stderr # <<>>)
        /\ exitCode = 0 => (exc = "none" /\ Emitted)

\* C6 as amended: a run that has not finished can take a step; a finished
\* run has exit code 0 or 1; every failure gives 1 and one line on the error
\* stream; a missing required input is reported by the command's own check
\* and exits through SystemExit, which the handler does not catch; every
\* other failure is caught by the top-level handler, which prints it with
\* the failure marker; 0 only when the result has been emitted.
C6_ExitCodes ==
    ValidCommand =>
        /\ ~Done => ENABLED Next
        /\ Done =>
            /\ exitCode \in {0, 1}
            /\ exc # "none" => (exitCode = 1 /\ Len(stderr) = 1)
            /\ exc = "SystemExit" =>
                 (~caught /\ RequiredInputAbsent /\ stderr[1][1] # "U+274C Error: ")
            /\ exc \notin {"none", "SystemExit"} =>
                 (caught /\ stderr[1] = <<"U+274C Error: ", exc>>)
            /\ exitCode = 0 => (exc = "none" /\ stderr = <<>> /\ Emitted)

C6_Witness ==
    /\ Done
    /\ exitCode = 1
    /\ caught
    /\ exc = "JSONDecodeError"
    /\ stderr = <<(<<"U+274C Error: ", "JSONDecodeError">>)>>

(***************************************************************************)
(* C7.  Emission of the result.                                            *)
(***************************************************************************)
\* C7: a run with a valid subcommand that has raised nothing ends with exit
\* code 0; with --output the file holds exactly the service's reply (or, with
\* no call, the result), whatever it held before, and stdout holds the
\* confirmation line naming the path and nothing else; without --output
\* stdout holds the reply and the file is as it was.
C7_OutputHoldsExactlyTheResponse ==
    (ValidCommand /\ Done /\ exc = "none") =>
        LET R == IF calls = <<>> THEN result ELSE calls[1].reply.text
        IN  /\ exitCode = 0
            /\ calls # <<>> => calls[1].reply.kind = "text"
            /\ IF args.output \in {None, ""}
               THEN stdout = <<(<<R>>)>> /\ outfile = outfile0
               ELSE /\ FileHolds(R)
                    /\ stdout = <<(<<"U+2705 Output written to ", args.output>>)>>

C7_Witness ==
    /\ Done
    /\ exitCode = 0
    /\ args.command = "spec"
    /\ args.output = "out.md"
    /\ outfile0.exists
    /\ NetCalls = 1
    /\ calls[1].reply = [kind |-> "text", text |-> "OK"]
    /\ outfile.content = <<"OK">>

(***************************************************************************)
(* C8.  Truncation of the diff.                                            *)
(***************************************************************************)
\* C8: the diff embedded in the request of a pr-review is the first
\* min(len(diff), 8000) characters of the diff read, whatever the service
\* replies.
C8_DiffTruncatedTo8000 ==
    (args.command = "pr-review" /\ calls # <<>>) =>
        LET embedded == calls[1].request.messages[1].content.diff
        IN  /\ Len(embedded) = IF Len(diff) > 8000 THEN 8000 ELSE Len(diff)
            /\ \A i \in 1..Len(embedded) : embedded[i] = diff[i]

C8_Witness ==
    /\ args.command = "pr-review"
    /\ NetCalls = 1
    /\ Len(diff) > 8000
    /\ Len(calls[1].request.messages[1].content.diff) = 8000
    /\ calls[1].reply.kind = "error"

(***************************************************************************)
(* C9.  Reports in neither recognised shape.                               *)
(***************************************************************************)
\* C9 as claimed: once analyze_test_failures has run on a parsed report
\* that is no mapping with a testResults or a suites key (mappings without
\* them, null, numbers, strings, lists), it has raised nothing: it has
\* returned the fixed success string with an empty Failure List and no
\* call, and the run, unless the emission itself fails, ends with code 0.
C9_UnrecognisedShapeIsNoError ==
    (Analyzed /\ ~ResultList(test_report) /\ ~SuiteSpec(test_report)) =>
        /\ exc \notin {"TypeError", "AttributeError"}
        /\ returned
        /\ failures = <<>>
        /\ result = "U+2705 No test failures detected"
        /\ NetCalls = 0
        /\ (Done /\ exc \notin {"OSError", "UnicodeEncodeError"}) => exitCode = 0

(***************************************************************************)
(* C10.  No partial result on failure.                                     *)
(***************************************************************************)
\* C10 as claimed: a run that ends with exit code 1 has left the file at
\* --output as it was and has written nothing to stdout; the file is only
\* modified once the operation has produced the result.
C10_NoPartialResultOnFailure ==
    /\ (Done /\ exitCode = 1) => (outfile = outfile0 /\ stdout = <<>>)
    /\ outfile # outfile0 => returned

====
